---------------------------- MODULE Spec2Model ----------------------------
(***************************************************************************)
(* Model of src/app/app.c: the SP804-based millisecond clock               *)
(* (timer_init, get_elapsed_ms), the frame bridge (process_frames,         *)
(* netif_output) and the polling loop of c_entry with its DHCP timers and  *)
(* static-address fallback.                                                *)
(*                                                                         *)
(* TLC integers are 32-bit signed, so the 32-bit counter, the 32-bit timer *)
(* variables and the time constants are scaled down: the counter has       *)
(* CounterBits bits instead of 32, the timer variables TimerBits bits      *)
(* instead of 32, and the periods are a few milliseconds.  The order       *)
(* DHCP_FINE_TIMER_MSECS < FALLBACK_TIMEOUT_MS < coarse period < 2^Timer-  *)
(* Bits and TICKS_PER_MS > 1 of the source is kept.                        *)
(***************************************************************************)
EXTENDS Integers, Sequences, FiniteSets, TLC

\* width of the hardware counter (32 in the source)
CounterBits == 4
\* value loaded into TIMER1_LOAD, 0xFFFFFFFF in the source
COUNTER_MAX == 2^CounterBits - 1
\* one counter period in ticks
CounterPeriod == COUNTER_MAX + 1
\* divisor of the tick-to-ms conversion (1000 in the source)
TICKS_PER_MS == 2
\* longest run considered, in counter ticks since timer_init
MaxTicks == 20

VARIABLES
    timer_value,   \* TIMER1_VALUE, the free-running down-counter
    ms_elapsed,    \* static volatile uint64_t ms_elapsed
    last_check,    \* static volatile uint32_t last_check
    total_ticks,   \* history: ticks counted by the hardware since timer_init
    reads          \* history of the calls made by the clock's caller, see ReadsInit

clock_vars == <<timer_value, ms_elapsed, last_check, total_ticks>>

VARIABLES
    rx,            \* history: what the process_frames() call that last returned
                   \* did (in c_entry: until the loop goes on to sample the clock)
    bridge_held,   \* pool buffers allocated by the bridge, not accepted, not freed
    crashed,       \* the program faulted and executes nothing more
    tx             \* history: what the latest netif_output() call did

bridge_vars == <<rx, bridge_held, crashed, tx>>

VARIABLES
    pc,                    \* position of c_entry
    current_time,          \* uint64_t current_time
    last_time,             \* uint64_t last_time
    dhcp_fine_timer_ms,    \* static uint32_t dhcp_fine_timer_ms
    dhcp_coarse_timer_ms,  \* static uint32_t dhcp_coarse_timer_ms
    netif_up,              \* NETIF_FLAG_UP of netif
    ip_addr,               \* netif.ip_addr: "any", "dhcp" or "static"
    dhcp_bound,            \* what dhcp_supplied_address(&netif) returns
    hist                   \* history of the run, see HistInit

sched_vars == <<pc, current_time, last_time, dhcp_fine_timer_ms,
                dhcp_coarse_timer_ms, netif_up, ip_addr, dhcp_bound, hist>>

vars == <<clock_vars, reads, bridge_vars, sched_vars>>

\* width of dhcp_fine_timer_ms and dhcp_coarse_timer_ms (32 in the source)
TimerBits == 3
\* fine period in ms (500 in the source)
DHCP_FINE_TIMER_MSECS == 2
\* coarse period in seconds (60 in the source) and ms per second (1000)
DHCP_COARSE_TIMER_SECS == 3
MS_PER_SEC == 2
\* fallback timeout in ms (10000 in the source)
FALLBACK_TIMEOUT_MS == 4
\* the address collaborator clears the address only while use_static_ip has
\* run fewer than this many times
MaxStaticCalls == 2
\* most ticks between timer_init and the first get_elapsed_ms call, and most
\* ticks taken by the start-up steps of lines 173-189
MaxFirstRead == 1
MaxBootTicks == 3

\* longest received frame and longest transmitted chain, in bytes
MaxFrameLen == 1
MaxChainLen == 3
Bytes == {0, 1}

\* uint32_t arithmetic
u32(x) == x % CounterPeriod

\* a wrap test with the comparison the wrong way round
wrap_detected_inverted(last, cur) == cur < last

\* get_elapsed_ms, line 62: current_value > last_check
wrap_detected(last, cur) == cur > last

\* get_elapsed_ms, lines 65-68 and 71: the value of remaining + elapsed, or of
\* last_check - current_value, before it is reduced to 32 bits
raw_elapsed(last, cur) ==
    IF wrap_detected(last, cur)
    THEN last + (COUNTER_MAX - cur)
    ELSE last - cur

\* get_elapsed_ms, lines 62-73: the ticks it takes to have elapsed
elapsed_ticks(last, cur) ==
    IF wrap_detected(last, cur)
    THEN u32(last + u32(COUNTER_MAX - cur))
    ELSE u32(last - cur)

\* a clock that recomputes the time from the raw value alone
ms_after_norollover(ms, last, cur) == (COUNTER_MAX - cur) \div TICKS_PER_MS

\* get_elapsed_ms, lines 68 and 72: ms_elapsed += elapsed / 1000
ms_after(ms, last, cur) == ms + (elapsed_ticks(last, cur) \div TICKS_PER_MS)

\* the hardware counts d ticks down, wrapping from 0 to COUNTER_MAX
HwCount(d) ==
    /\ total_ticks + d <= MaxTicks
    /\ timer_value' = u32(timer_value - d)
    /\ total_ticks' = total_ticks + d

\* ticks counted since the latest read, which is less than one period
SinceRead == u32(last_check - timer_value)

\* get_elapsed_ms(), called d ticks after the previous hardware state
get_elapsed_ms(d) ==
    /\ HwCount(d)
    /\ ms_elapsed' = ms_after(ms_elapsed, last_check, timer_value')
    /\ last_check' = timer_value'

\* timer_init(): state of the clock when it returns
timer_init ==
    /\ timer_value = COUNTER_MAX
    /\ ms_elapsed = 0
    /\ last_check = COUNTER_MAX
    /\ total_ticks = 0

(***************************************************************************)
(* Frame bridge                                                            *)
(***************************************************************************)
SeqsUpTo(n) == UNION {[1..k -> Bytes] : k \in 1..n}

\* frames the driver hands to process_frames
RxFrames == SeqsUpTo(MaxFrameLen)

\* total length of a sequence of segments
SegSum(c) == LET S[i \in 0..Len(c)] == IF i = 0 THEN 0 ELSE S[i-1] + Len(c[i])
             IN  S[Len(c)]

\* pbuf chains: one or more non-empty segments, MaxChainLen bytes at most
Chains ==
    UNION {{c \in [1..k -> SeqsUpTo(MaxChainLen - k + 1)] :
               SegSum(c) <= MaxChainLen} : k \in 1..MaxChainLen}

RxIdle == [called |-> FALSE, allocated |-> FALSE, payload |-> <<>>,
           input_arg |-> "none", input_res |-> "none",
           freed |-> 0, free_null |-> 0]

\* a receive path that never releases the buffer
pbuf_free_never(res) == 0

\* process_frames, lines 97-99: pbuf_free calls made for an allocated buffer
\* on which netif.input returned res
pbuf_free_calls(res) == IF res # "ERR_OK" THEN 1 ELSE 0

\* process_frames(frame, frame_len): alloc_ok is whether pbuf_alloc returns a
\* buffer, res the value netif.input returns for a buffer, null_out what the
\* build does when netif.input is handed a null pointer
process_frames(frame, alloc_ok, res, null_out) ==
    /\ ~crashed
    /\ IF alloc_ok
       THEN \* lines 94-99 with p != NULL
            /\ rx' = [called |-> TRUE, allocated |-> TRUE, payload |-> frame,
                      input_arg |-> "pbuf", input_res |-> res,
                      freed |-> pbuf_free_calls(res),
                      free_null |-> 0]
            \* one buffer allocated; handed over when netif.input accepts
            \* it (line 97), released by pbuf_free otherwise (line 98)
            /\ bridge_held' = bridge_held + 1
                                 - (IF res = "ERR_OK" THEN 1 ELSE 0)
                                 - rx'.freed
            /\ crashed' = crashed
       ELSE \* lines 97-99 with p == NULL: netif.input(NULL, &netif)
            /\ rx' = [called |-> TRUE, allocated |-> FALSE, payload |-> <<>>,
                      input_arg |-> "NULL", input_res |-> null_out,
                      freed |-> 0,
                      free_null |-> IF null_out = "ERR_VAL" THEN 1 ELSE 0]
            /\ bridge_held' = bridge_held
            /\ crashed' = (null_out = "fault")
    /\ UNCHANGED tx

RECURSIVE tot_len(_)
\* p->tot_len: the sum of the segment lengths of the chain
tot_len(p) == IF p = <<>> THEN 0 ELSE Len(Head(p)) + tot_len(Tail(p))

Min(a, b) == IF a < b THEN a ELSE b

RECURSIVE pbuf_copy_partial(_, _)
\* pbuf_copy_partial(p, buf, len, 0): the first len bytes of the chain
pbuf_copy_partial(p, len) ==
    IF p = <<>> \/ len = 0
    THEN <<>>
    ELSE LET n == Min(Len(Head(p)), len)
         IN  SubSeq(Head(p), 1, n) \o pbuf_copy_partial(Tail(p), len - n)

\* a transmit path that takes the length of the first segment, p->len
output_len_first(p) == Len(Head(p))

\* netif_output, lines 106-108: the length it copies and sends
output_len(p) == tot_len(p)

\* netif_output(netif, p)
netif_output(p) ==
    /\ ~crashed
    /\ LET mac_send_buffer == pbuf_copy_partial(p, output_len(p))
       IN  tx' = [chain |-> p, sends |-> 1, frame |-> mac_send_buffer,
                  len |-> output_len(p), result |-> "ERR_OK"]
    /\ UNCHANGED <<rx, bridge_held, crashed>>

TxIdle == [chain |-> <<>>, sends |-> 0, frame |-> <<>>, len |-> 0,
           result |-> "none"]

InputResults == {"ERR_OK", "ERR_MEM"}
NullOutcomes == {"fault", "ERR_OK", "ERR_VAL"}

InitBridge == rx = RxIdle /\ bridge_held = 0 /\ crashed = FALSE /\ tx = TxIdle

(***************************************************************************)
(* c_entry: start-up and the polling loop                                  *)
(***************************************************************************)
\* conversion of a uint64_t to the uint32_t timer variables
u32timer(x) == x % (2^TimerBits)

HistInit ==
    [fine_calls    |-> 0,      \* dhcp_fine_tmr() calls in this iteration
     coarse_calls  |-> 0,      \* dhcp_coarse_tmr() calls in this iteration
     fine_at       |-> 0,      \* current_time when the fine timer was last armed
     polls_ok      |-> TRUE,   \* polls since that arming were <= one period apart
     fine_gap      |-> 0,      \* when dhcp_fine_tmr ran in this iteration: ms since
                               \* the arming before, saturating at two periods
     fine_gap_ok   |-> TRUE,   \* and polls_ok as that call found it
     static_calls  |-> 0,      \* use_static_ip() calls so far
     up_ticks      |-> 0,      \* total_ticks at interface bring-up
     bound_early   |-> FALSE,  \* an address was bound before FALLBACK_TIMEOUT_MS
     bound_in_time |-> FALSE,  \* an address was bound within the timeout of bring-up
     reported      |-> FALSE,  \* "DHCP configured" was printed in this iteration
     configured    |-> FALSE,  \* "DHCP configured" was printed at some time
     coarse_at     |-> 0,      \* current_time when the coarse timer was last armed
     coarse_owed   |-> FALSE,  \* the coarse test of this iteration found a full
                               \* coarse period elapsed since that arming
     order         |-> <<>>,   \* steps of this iteration, in the order taken
     check_times   |-> <<>>,   \* time each timer or fallback test of it compared
     fallback_over |-> "none"] \* address use_static_ip replaced in this iteration

InitSched ==
    /\ pc = "init_timers"
    /\ current_time = 0
    /\ last_time = 0
    /\ dhcp_fine_timer_ms = 0
    /\ dhcp_coarse_timer_ms = 0
    /\ netif_up = FALSE
    /\ ip_addr = "any"
    /\ dhcp_bound = FALSE
    /\ hist = HistInit

\* hardware time in ms since timer_init
HwMs == total_ticks \div TICKS_PER_MS

CollabEffects == {"none", "bind", "clear"}

\* what the stack (DHCP) does to the interface inside one of its entry points:
\* nothing, dhcp_bind (netif_set_addr to the leased address), or clearing the
\* address (NAK, lease expiry: netif_set_addr to the any address)
\* (h is the history so far; report is whether the caller goes on to print
\* the address when dhcp_supplied_address holds, lines 209-211)
Collab(e, h, report) ==
    /\ e = "clear" => h.static_calls < MaxStaticCalls
    /\ ip_addr' = CASE e = "bind" -> "dhcp" [] e = "clear" -> "any"
                    [] OTHER -> ip_addr
    /\ dhcp_bound' = CASE e = "bind" -> TRUE [] e = "clear" -> FALSE
                       [] OTHER -> dhcp_bound
    /\ hist' = [h EXCEPT
                  !.bound_early = @ \/ (e = "bind" /\ HwMs < FALLBACK_TIMEOUT_MS),
                  !.bound_in_time =
                      @ \/ (e = "bind" /\ total_ticks - h.up_ticks
                                            <= FALLBACK_TIMEOUT_MS * TICKS_PER_MS),
                  !.reported = @ \/ (report /\ dhcp_bound'),
                  !.configured = @ \/ (report /\ dhcp_bound')]

\* lines 169-171: first sample, both timers armed
init_timers ==
    /\ pc = "init_timers" /\ ~crashed
    /\ \E d \in 0..MaxFirstRead : get_elapsed_ms(d)
    /\ current_time' = ms_elapsed'
    /\ dhcp_fine_timer_ms' = u32timer(current_time')
    /\ dhcp_coarse_timer_ms' = u32timer(current_time')
    /\ hist' = [hist EXCEPT !.fine_at = current_time',
                             !.coarse_at = current_time']
    /\ pc' = "bringup"
    /\ UNCHANGED <<reads, last_time, netif_up, ip_addr, dhcp_bound,
                   bridge_vars>>

\* lines 173-189: lwip_init, netif_add with the any address, netif_set_up,
\* dhcp_start, driver reset; the hardware counts d ticks meanwhile
bringup ==
    /\ pc = "bringup" /\ ~crashed
    /\ \E d \in 0..MaxBootTicks : HwCount(d)
    /\ netif_up' = TRUE
    /\ ip_addr' = "any"
    /\ dhcp_bound' = FALSE
    /\ hist' = [hist EXCEPT !.up_ticks = total_ticks']
    /\ pc' = "events"
    /\ UNCHANGED <<ms_elapsed, last_check, reads, current_time, last_time,
                   dhcp_fine_timer_ms, dhcp_coarse_timer_ms, bridge_vars>>

IterStart(h) ==
    [h EXCEPT !.fine_calls = 0, !.coarse_calls = 0, !.reported = FALSE,
              !.fine_gap = 0, !.fine_gap_ok = TRUE, !.coarse_owed = FALSE,
              !.order = <<"events">>, !.check_times = <<>>,
              !.fallback_over = "none"]

\* a loop body that tests the timers before it samples the clock
StepAfterLateSample(step) ==
    CASE step = "events"   -> "fine"
      [] step = "fine"     -> "sample"
      [] step = "sample"   -> "coarse"
      [] step = "coarse"   -> "fallback"
      [] step = "fallback" -> "events"

\* lines 192-224: the statement of the loop body that follows a statement
StepAfter(step) ==
    CASE step = "events"   -> "sample"
      [] step = "sample"   -> "fine"
      [] step = "fine"     -> "coarse"
      [] step = "coarse"   -> "fallback"
      [] step = "fallback" -> "events"

\* line 194: nr_lan91c111_check_for_events finds no frame
events_none ==
    /\ pc = "events" /\ ~crashed
    /\ hist' = IterStart(hist)
    /\ pc' = StepAfter("events")
    /\ UNCHANGED <<clock_vars, reads, bridge_vars, current_time, last_time,
                   dhcp_fine_timer_ms, dhcp_coarse_timer_ms, netif_up,
                   ip_addr, dhcp_bound>>

\* line 194: nr_lan91c111_check_for_events hands one frame to process_frames;
\* the stack acts on a frame it is given
events_frame ==
    /\ pc = "events"
    /\ \E f \in RxFrames, a \in BOOLEAN, r \in InputResults,
          n \in NullOutcomes, e \in CollabEffects :
        /\ process_frames(f, a, r, n)
        /\ (~a \/ r # "ERR_OK") => e = "none"
        /\ Collab(e, IterStart(hist), FALSE)
    /\ pc' = StepAfter("events")
    /\ UNCHANGED <<clock_vars, reads, current_time, last_time,
                   dhcp_fine_timer_ms, dhcp_coarse_timer_ms, netif_up>>

\* lines 197-201: last_time = current_time; current_time = get_elapsed_ms()
sample ==
    /\ pc = "sample" /\ ~crashed
    /\ \E d \in 1..(COUNTER_MAX - SinceRead) : get_elapsed_ms(d)
    /\ last_time' = current_time
    /\ current_time' = ms_elapsed'
    /\ hist' = [hist EXCEPT
                  !.polls_ok = @ /\ (current_time' - current_time
                                        <= DHCP_FINE_TIMER_MSECS),
                  !.order = Append(@, "sample")]
    /\ pc' = StepAfter("sample")
    /\ rx' = RxIdle
    /\ UNCHANGED <<reads, dhcp_fine_timer_ms, dhcp_coarse_timer_ms, netif_up,
                   ip_addr, dhcp_bound, bridge_held, crashed, tx>>

\* history: a timer or fallback test of this iteration compares current_time
Checked(h, step) ==
    [h EXCEPT !.order = Append(@, step),
              !.check_times = Append(@, current_time)]

\* a fine-timer test with > in place of >=
fine_due_strict(now, timer) == now - timer > DHCP_FINE_TIMER_MSECS

\* line 204: current_time - dhcp_fine_timer_ms >= DHCP_FINE_TIMER_MSECS
fine_due(now, timer) == now - timer >= DHCP_FINE_TIMER_MSECS

\* lines 204-212
fine ==
    /\ pc = "fine" /\ ~crashed
    /\ IF fine_due(current_time, dhcp_fine_timer_ms)
       THEN /\ dhcp_fine_timer_ms' = u32timer(current_time)
            /\ \E e \in CollabEffects :
                 Collab(e, [Checked(hist, "fine") EXCEPT
                              !.fine_calls = @ + 1,
                              !.fine_gap =
                                  Min(current_time - hist.fine_at,
                                      2 * DHCP_FINE_TIMER_MSECS),
                              !.fine_gap_ok = hist.polls_ok,
                              !.fine_at = current_time,
                              !.polls_ok = TRUE],
                        TRUE)
       ELSE /\ hist' = Checked(hist, "fine")
            /\ UNCHANGED <<dhcp_fine_timer_ms, ip_addr, dhcp_bound>>
    /\ pc' = StepAfter("fine")
    /\ UNCHANGED <<clock_vars, reads, bridge_vars, current_time, last_time,
                   dhcp_coarse_timer_ms, netif_up>>

\* line 215: current_time - dhcp_coarse_timer_ms >= DHCP_COARSE_TIMER_SECS * 1000
coarse_due(now, timer) == now - timer >= DHCP_COARSE_TIMER_SECS * MS_PER_SEC

\* history: the coarse test of this iteration, and whether a coarse period
\* of monotonic time has passed since the timer was last armed
CoarseChecked(h) ==
    [Checked(h, "coarse") EXCEPT
        !.coarse_owed = (current_time - h.coarse_at
                           >= DHCP_COARSE_TIMER_SECS * MS_PER_SEC)]

\* lines 215-218
coarse ==
    /\ pc = "coarse" /\ ~crashed
    /\ IF coarse_due(current_time, dhcp_coarse_timer_ms)
       THEN /\ dhcp_coarse_timer_ms' = u32timer(current_time)
            /\ \E e \in CollabEffects :
                 Collab(e, [CoarseChecked(hist) EXCEPT
                              !.coarse_calls = @ + 1,
                              !.coarse_at = current_time],
                        FALSE)
       ELSE /\ hist' = CoarseChecked(hist)
            /\ UNCHANGED <<dhcp_coarse_timer_ms, ip_addr, dhcp_bound>>
    /\ pc' = StepAfter("coarse")
    /\ UNCHANGED <<clock_vars, reads, bridge_vars, current_time, last_time,
                   dhcp_fine_timer_ms, netif_up>>

\* a fallback test that does not look at the interface address
fallback_due_any_addr(now, up, addr) == (now > FALLBACK_TIMEOUT_MS) /\ up

\* line 221: the condition under which use_static_ip is called
fallback_due(now, up, addr) ==
    (now > FALLBACK_TIMEOUT_MS) /\ up /\ addr = "any"

\* lines 221-223, use_static_ip lines 137-150
fallback ==
    /\ pc = "fallback" /\ ~crashed
    /\ IF fallback_due(current_time, netif_up, ip_addr)
       THEN /\ ip_addr' = "static"
            /\ hist' = [Checked(hist, "fallback") EXCEPT
                          !.static_calls = @ + 1,
                          !.fallback_over = ip_addr]
       ELSE /\ hist' = Checked(hist, "fallback")
            /\ UNCHANGED ip_addr
    /\ pc' = StepAfter("fallback")
    /\ UNCHANGED <<clock_vars, reads, bridge_vars, current_time, last_time,
                   dhcp_fine_timer_ms, dhcp_coarse_timer_ms, netif_up,
                   dhcp_bound>>

ReadsInit ==
    [calls       |-> 0,            \* get_elapsed_ms() calls, saturating at 2
     ret         |-> 0,            \* value returned by the latest call
     prev_ret    |-> 0,            \* value returned by the call before it
     prev_sample |-> COUNTER_MAX,  \* raw value read by the call before it
     prev_ticks  |-> 0,            \* total_ticks at the call before it
     wrapped     |-> FALSE,        \* the counter passed zero between the two
     branch      |-> "none",       \* branch of line 62 the latest call took
     raw         |-> 0]            \* raw_elapsed of the latest call

Init == timer_init /\ InitBridge /\ InitSched /\ reads = ReadsInit

Next ==
    \/ init_timers
    \/ bringup
    \/ events_none
    \/ events_frame
    \/ sample
    \/ fine
    \/ coarse
    \/ fallback

Spec == Init /\ [][Next]_vars

\* the latest poll came two fine periods or more after the one before it
Stalled == current_time - last_time >= 2 * DHCP_FINE_TIMER_MSECS

\* C4: dhcp_fine_tmr runs at most once per iteration; after a stall it runs
\* once on the next poll; and it never runs again before a further fine
\* period of monotonic time has passed since it last ran (or was armed)
C4_FineNoBacklog ==
    /\ hist.fine_calls <= 1
    /\ (pc = "coarse" /\ Stalled) => hist.fine_calls = 1
    /\ hist.fine_calls = 1 => hist.fine_gap >= DHCP_FINE_TIMER_MSECS

\* C5 as stated: with polls at most one fine period apart, no window of one
\* fine period passes without dhcp_fine_tmr, so two consecutive runs are
\* never more than one period apart
C5_FineWithinOnePeriod ==
    (hist.fine_calls = 1 /\ hist.fine_gap_ok) =>
        hist.fine_gap <= DHCP_FINE_TIMER_MSECS

\* C5 as amended: with polls at most one fine period apart, dhcp_fine_tmr
\* runs less than two fine periods after it last ran (or was armed)
C5_FineWithinTwoPeriods ==
    (hist.fine_calls = 1 /\ hist.fine_gap_ok) =>
        hist.fine_gap < 2 * DHCP_FINE_TIMER_MSECS

\* dhcp_fine_tmr has just run, one tick short of two periods after its
\* previous run, in a run whose polls were never more than a period apart
C5_Witness ==
    /\ pc = "coarse"
    /\ hist.fine_calls = 1
    /\ hist.fine_gap_ok
    /\ hist.fine_gap = 2 * DHCP_FINE_TIMER_MSECS - 1
    /\ current_time - last_time <= DHCP_FINE_TIMER_MSECS

\* C6: when no address is bound within the timeout of bring-up, the run
\* applies the fallback once and never a second time
C6_FallbackExactlyOnce ==
    ~hist.bound_in_time => hist.static_calls <= 1

\* C7: once an address has been bound before the timeout, use_static_ip is
\* never called
C7_NoFallbackAfterBind ==
    hist.bound_early => hist.static_calls = 0

\* C8: use_static_ip is called at most once in a run
C8_FallbackAtMostOnce == hist.static_calls < 2

\* C12: in every iteration dhcp_coarse_tmr runs once when a coarse period of
\* monotonic time has passed since it last ran (or since start-up), and does
\* not run otherwise
C12_CoarseExactlyWhenDue ==
    /\ hist.coarse_calls <= 1
    /\ pc = "fallback" =>
          hist.coarse_calls = (IF hist.coarse_owed THEN 1 ELSE 0)

\* the steps of one loop iteration
IterOrder == <<"events", "sample", "fine", "coarse", "fallback">>

\* C13: an iteration drains the driver, then samples the clock once, then
\* tests the fine timer, the coarse timer and the fallback in that order, all
\* three against that one sample
C13_StepOrder ==
    /\ Len(hist.order) <= Len(IterOrder)
    /\ hist.order = SubSeq(IterOrder, 1, Len(hist.order))
    /\ \A i \in 1..Len(hist.check_times) : hist.check_times[i] = current_time
    /\ (pc = "events" /\ hist.order # <<>>) =>
          (hist.order = IterOrder /\ Len(hist.check_times) = 3)

\* an iteration in which the clock moved and dhcp_fine_tmr ran has reached
\* its end, and its three tests compared the new sample
C13_Witness ==
    /\ pc = "events"
    /\ hist.order = IterOrder
    /\ hist.check_times = <<current_time, current_time, current_time>>
    /\ current_time > last_time
    /\ hist.fine_calls = 1

\* C14: use_static_ip runs only when the fallback timeout has passed since
\* the interface was brought up
C14_FallbackFromBringUp ==
    hist.fallback_over # "none" =>
        total_ticks - hist.up_ticks >= FALLBACK_TIMEOUT_MS * TICKS_PER_MS

\* C15: a timer that fires is rearmed to exactly the time sample of the
\* iteration
C15_RearmExact ==
    /\ (pc = "coarse" /\ hist.fine_calls = 1) =>
          dhcp_fine_timer_ms = current_time
    /\ (pc = "fallback" /\ hist.coarse_calls = 1) =>
          dhcp_coarse_timer_ms = current_time

\* C16: once a bound address has been reported use_static_ip never runs, and
\* once use_static_ip has run a bound address is never reported for the
\* first time and use_static_ip never runs again
C16_TerminalStates ==
    [][/\ hist.configured => hist'.static_calls = hist.static_calls
       /\ hist.static_calls > 0 =>
             /\ hist'.configured = hist.configured
             /\ hist'.static_calls = hist.static_calls]_vars

\* C17: whenever use_static_ip runs, the interface is up, its address was the
\* any address and the sampled time is past the timeout
C17_FallbackOnlyUnconfigured ==
    hist.fallback_over # "none" =>
        /\ hist.fallback_over = "any"
        /\ netif_up
        /\ current_time > FALLBACK_TIMEOUT_MS

\* use_static_ip has run in an iteration that found a cleared address after
\* a lease had been bound
C17_Witness ==
    /\ pc = "events"
    /\ hist.fallback_over = "any"
    /\ ip_addr = "static"
    /\ hist.bound_early
    /\ current_time > FALLBACK_TIMEOUT_MS

\* C18: neither timer variable is ever more than its period ahead of the
\* clock, and when an iteration ends each is less than one period behind the
\* sample of that iteration
C18_DeadlinesFresh ==
    /\ dhcp_fine_timer_ms <= current_time + DHCP_FINE_TIMER_MSECS
    /\ dhcp_coarse_timer_ms
          <= current_time + DHCP_COARSE_TIMER_SECS * MS_PER_SEC
    /\ (pc = "events" /\ hist.order # <<>>) =>
          /\ current_time - dhcp_fine_timer_ms < DHCP_FINE_TIMER_MSECS
          /\ current_time - dhcp_coarse_timer_ms
                < DHCP_COARSE_TIMER_SECS * MS_PER_SEC

(***************************************************************************)
(* The frame bridge alone                                                  *)
(***************************************************************************)
Receive ==
    \E f \in RxFrames, a \in BOOLEAN, r \in InputResults, n \in NullOutcomes :
        process_frames(f, a, r, n)

Transmit == \E p \in Chains : netif_output(p)

NextBridge ==
    (Receive \/ Transmit) /\ UNCHANGED <<clock_vars, reads, sched_vars>>

InitBridgeOnly == Init

SpecBridge == InitBridgeOnly /\ [][NextBridge]_vars

RECURSIVE Concat(_)
Concat(p) == IF p = <<>> THEN <<>> ELSE Head(p) \o Concat(Tail(p))

\* C9: when pbuf_alloc fails the frame is dropped: netif.input is not called,
\* nothing is freed that was not allocated, nothing is left outstanding and
\* the program goes on
C9_AllocFailDrops ==
    (rx.called /\ ~rx.allocated) =>
        /\ rx.input_arg = "none"
        /\ rx.free_null = 0
        /\ bridge_held = 0
        /\ ~crashed

\* C11: when process_frames has returned the bridge holds no pool buffer: a
\* buffer it allocated was either accepted by netif.input and not freed, or
\* rejected and freed exactly once
C11_NoBufferHeld ==
    /\ bridge_held = 0
    /\ rx.allocated =>
          \/ (rx.input_res = "ERR_OK" /\ rx.freed = 0)
          \/ (rx.input_res # "ERR_OK" /\ rx.freed = 1)

\* netif.input has rejected an allocated buffer and process_frames returned
C11_Witness ==
    /\ rx.called /\ rx.allocated
    /\ rx.input_res = "ERR_MEM"
    /\ rx.freed = 1
    /\ bridge_held = 0

\* C10: netif_output on a chain of total length L makes one driver send of
\* L bytes, the concatenation of the chain's segments in order
C10_TxLinearized ==
    tx.result # "none" =>
        /\ tx.sends = 1
        /\ tx.len = tot_len(tx.chain)
        /\ Len(tx.frame) = tx.len
        /\ tx.frame = Concat(tx.chain)

\* a chain of two segments of different lengths has been sent
C10_Witness ==
    /\ tx.result = "ERR_OK"
    /\ Len(tx.chain) = 2
    /\ Len(tx.chain[1]) = 1
    /\ Len(tx.chain[2]) = 2
    /\ tx.sends = 1

(***************************************************************************)
(* The clock alone: any caller that reads at least once per period.        *)
(***************************************************************************)
InitClock == Init

\* a caller that reads at least once per counter period
ClockCall ==
    /\ \E d \in 1..COUNTER_MAX : get_elapsed_ms(d)
    /\ reads' = [calls       |-> IF reads.calls < 2 THEN reads.calls + 1 ELSE 2,
                 ret         |-> ms_elapsed',
                 prev_ret    |-> reads.ret,
                 prev_sample |-> last_check,
                 prev_ticks  |-> total_ticks,
                 wrapped     |-> (total_ticks' - total_ticks > last_check),
                 branch      |-> IF wrap_detected(last_check, timer_value')
                                 THEN "wrap" ELSE "nowrap",
                 raw         |-> raw_elapsed(last_check, timer_value')]

NextClock == ClockCall /\ UNCHANGED <<bridge_vars, sched_vars>>

SpecClock == InitClock /\ [][NextClock]_vars

\* C1: successive values returned by get_elapsed_ms() never decrease
C1_Monotonic == [][reads'.ret >= reads.ret /\ ms_elapsed' >= ms_elapsed]_vars

\* a call that straddles a counter wrap has returned, after an earlier call
C1_Witness == reads.wrapped /\ reads.calls = 2 /\ reads.ret > reads.prev_ret

\* C2: the returned value is the total elapsed ticks,
\* wraps * (COUNTER_MAX+1) + (COUNTER_MAX - v), divided by the tick rate,
\* however the calls were spaced
C2_ExactElapsed ==
    reads.calls > 0 => reads.ret = total_ticks \div TICKS_PER_MS

\* C3: after a call that follows exactly one wrap, the returned value is the
\* ticks elapsed at the pre-wrap sample, plus the rest of that period, plus
\* the ticks after the wrap, converted to milliseconds
C3_WrapExact ==
    (reads.calls = 2 /\ reads.wrapped) =>
        reads.ret = (reads.prev_ticks + (reads.prev_sample + 1)
                       + (COUNTER_MAX - last_check)) \div TICKS_PER_MS

\* C20: in the wrap branch last_check + (0xFFFFFFFF - current_value) fits in
\* 32 bits, and in the other branch last_check - current_value is not
\* negative
C20_NoOverflow ==
    /\ reads.branch = "wrap" => reads.raw <= COUNTER_MAX
    /\ reads.branch = "nowrap" => reads.raw >= 0
    /\ reads.branch # "none" => reads.raw \in 0..COUNTER_MAX

\* the wrap branch has been taken with the largest sum it can form
C20_Witness ==
    /\ reads.branch = "wrap"
    /\ reads.wrapped
    /\ reads.raw = COUNTER_MAX - 1

(***************************************************************************)
(* The clock under a loop that never stops calling it, while the counter   *)
(* keeps counting: total_ticks saturates at MaxTicks here and ms_elapsed   *)
(* is kept within MaxTicks.                                                *)
(***************************************************************************)
get_elapsed_ms_running(d) ==
    /\ timer_value' = u32(timer_value - d)
    /\ total_ticks' = Min(total_ticks + d, MaxTicks)
    /\ ms_elapsed' = ms_after(ms_elapsed, last_check, timer_value')
    /\ ms_elapsed' <= MaxTicks
    /\ last_check' = timer_value'

LoopCall ==
    /\ \E d \in 1..COUNTER_MAX : get_elapsed_ms_running(d)
    /\ reads' = [calls       |-> IF reads.calls < 2 THEN reads.calls + 1 ELSE 2,
                 ret         |-> ms_elapsed',
                 prev_ret    |-> reads.ret,
                 prev_sample |-> last_check,
                 prev_ticks  |-> total_ticks,
                 wrapped     |-> (u32(last_check - timer_value') > last_check),
                 branch      |-> IF wrap_detected(last_check, timer_value')
                                 THEN "wrap" ELSE "nowrap",
                 raw         |-> raw_elapsed(last_check, timer_value')]
    /\ UNCHANGED <<bridge_vars, sched_vars>>

InitClockFair == Init

NextClockFair == LoopCall

\* while (1) of c_entry: the call is made again and again
SpecClockFair == InitClockFair /\ [][NextClockFair]_vars /\ WF_vars(LoopCall)

\* C19: with the counter counting and the loop calling get_elapsed_ms, the
\* returned value eventually increases, whatever the spacing of the calls
C19_TimeProgress == <>(reads.ret > 0)

=============================================================================
